---- MODULE Spec2Model ----
(***************************************************************************)
(* Model of the bulk SMS dispatcher of sms-masivo (main.go).               *)
(*                                                                         *)
(* Every HTTP request is served by a goroutine of its own running          *)
(* sendSMSHandler or sendBulkSMSHandler.                                   *)
(* Every bulk request is served by its own call of sendBulkSMS, which      *)
(* owns a WaitGroup, a Mutex, a buffered channel used as a semaphore and   *)
(* the SMSResponse it returns.  The goroutines it starts are anonymous:    *)
(* the live goroutines of one call are kept as a bag of their local        *)
(* states (the argument `to`, the position in the closure, the local       *)
(* `err`).  A goroutine whose deferred calls have run no longer exists.    *)
(***************************************************************************)
EXTENDS Integers, Sequences, FiniteSets, Bags, TLC

\* Capacity of the semaphore channel: make(chan struct{}, 10).
GateCapacity == 10

\* Bounds of the model.
MaxLen == 3          \* recipients of the request served in Spec
BigLen == 11         \* recipients of the request served in SpecBig
PairTotal == 2       \* recipients of the two requests served in SpecPair

Recipients == {"a", "b"}

VARIABLES
    request,     \* each HTTP request: its path, its method, whether its body decodes
    reply,       \* the HTTP status and body written for each request
    recipients,  \* req.To of each request: the list of a bulk request, the one
                 \* recipient of a single request
    pc,          \* position of the goroutine serving the request
    next,        \* index of the next element of the range loop
    response,    \* the local SMSResponse of each call
    wg,          \* counter of the call's sync.WaitGroup
    mu,          \* TRUE while the call's sync.Mutex is locked
    semaphore,   \* number of elements buffered in the call's channel
    workers,     \* bag of the local states of the call's live goroutines
    provider,    \* what the SMS provider was asked to do and answered
    result       \* what the caller of sendBulkSMS has received

vars == <<request, reply, recipients, pc, next, response, wg, mu, semaphore,
          workers, provider, result>>

\* The requests being served.
Requests == DOMAIN recipients

\* http.HandleFunc("/send-sms", ...), http.HandleFunc("/send-bulk-sms", ...)
SinglePath == "/send-sms"
BulkPath == "/send-bulk-sms"

\* r.Method: http.MethodPost or any other.
Methods == {"POST", "GET"}

\* The requests handled by sendBulkSMSHandler, each at most one call of sendBulkSMS.
BulkRequests == {r \in Requests : request[r].path = BulkPath}

\* The requests handled by sendSMSHandler.
SingleRequests == {r \in Requests : request[r].path = SinglePath}

----------------------------------------------------------------------------
(* Helpers *)

RECURSIVE SeqToBag(_)
SeqToBag(s) ==
    IF s = <<>> THEN EmptyBag ELSE SetToBag({Head(s)}) (+) SeqToBag(Tail(s))

SeqsUpTo(n) == UNION {[1..k -> Recipients] : k \in 0..n}

Repeat(x, n) == [i \in 1..n |-> x]

\* The zero value of SMSResponse, before sendBulkSMS builds its own.
ZeroResponse == [Sent |-> <<>>, Failed |-> <<>>, Total |-> 0]

\* Mutant: Total counts the distinct recipients.
NewResponseDistinct(rcpts) ==
    [Sent |-> <<>>, Failed |-> <<>>,
     Total |-> Cardinality({rcpts[i] : i \in DOMAIN rcpts})]

\* response := SMSResponse{Sent: []string{}, Failed: []string{}, Total: len(recipients)}
NewResponse(rcpts) == [Sent |-> <<>>, Failed |-> <<>>, Total |-> Len(rcpts)]

\* go func(to string) {...}(recipient): the goroutine as it is started.
NewWorker(to) == [to |-> to, pc |-> "acquire", err |-> "unset"]

\* Mutant: the channel is made without a buffer, and nobody receives from it.
CanSendUnbuffered(n) == n < 0

\* Mutant: the buffer takes one element more than its capacity.
CanSendOffByOne(n) == n <= GateCapacity

\* semaphore <- struct{}{} proceeds only while the buffer is not full.
CanSend(n) == n < GateCapacity

\* Mutant: the mutex excludes nobody.
CanLockAlways(m) == TRUE

\* mu.Lock() proceeds only while the mutex is unlocked.
CanLock(m) == m = FALSE

\* Mutant: the caller does not wait for the counter to reach zero.
CanPassAlways(n) == TRUE

\* wg.Wait() proceeds only when the counter is zero.
CanPass(n) == n = 0

\* sendSMS: nil when CreateMessage succeeded, an error otherwise.
Outcomes == {"nil", "error"}

\* Mutant: the else is missing, a failed send is appended to both collections.
RecordedBoth(resp, to, err) ==
    IF err # "nil"
    THEN [resp EXCEPT !.Failed = Append(@, to), !.Sent = Append(@, to)]
    ELSE [resp EXCEPT !.Sent = Append(@, to)]

\* Mutant: a failed send is logged but not appended.
RecordedSentOnly(resp, to, err) ==
    IF err # "nil"
    THEN resp
    ELSE [resp EXCEPT !.Sent = Append(@, to)]

\* Mutant: the test of err is inverted.
RecordedSwapped(resp, to, err) ==
    IF err = "nil"
    THEN [resp EXCEPT !.Failed = Append(@, to)]
    ELSE [resp EXCEPT !.Sent = Append(@, to)]

\* if err != nil { Failed = append(Failed, to) } else { Sent = append(Sent, to) }
Recorded(resp, to, err) ==
    IF err # "nil"
    THEN [resp EXCEPT !.Failed = Append(@, to)]
    ELSE [resp EXCEPT !.Sent = Append(@, to)]

\* The provider's log after one CreateMessage call for `to`.
Called(log, to, out) ==
    IF out = "nil"
    THEN [log EXCEPT !.ok = @ (+) SetToBag({to})]
    ELSE [log EXCEPT !.failed = @ (+) SetToBag({to})]

\* A goroutine in local state w moves to local state v.
Step(bag, w, v) == (bag (-) SetToBag({w})) (+) SetToBag({v})

Live(r) == BagToSet(workers[r])

At(r, loc) == {w \in Live(r) : w.pc = loc}

\* Number of live goroutines of request r at one of the locations locs.
RECURSIVE CountIn(_, _)
CountIn(bag, ws) ==
    IF ws = {} THEN 0
    ELSE LET w == CHOOSE x \in ws : TRUE
         IN CopiesIn(w, bag) + CountIn(bag, ws \ {w})

NumAt(r, locs) == CountIn(workers[r], {w \in Live(r) : w.pc \in locs})

----------------------------------------------------------------------------
(* Initial states: the requests have arrived, their handlers have not run. *)

\* Bulk requests naming one of the lists: any method, body decodable or not.
BulkShapes(lists) ==
    [path : {BulkPath}, method : Methods, json : BOOLEAN, to : lists]

\* Single requests: any method, body decodable or not, one recipient.
SingleShapes ==
    [path : {SinglePath}, method : Methods, json : BOOLEAN,
     to : {<<x>> : x \in Recipients}]

\* No status written yet.
NoReply == [status |-> 0, body |-> <<>>]

InitWith(reqs) ==
    /\ request = [r \in DOMAIN reqs |->
                    [path |-> reqs[r].path, method |-> reqs[r].method,
                     json |-> reqs[r].json]]
    /\ reply = [r \in DOMAIN reqs |-> NoReply]
    /\ recipients = [r \in DOMAIN reqs |-> reqs[r].to]
    /\ pc = [r \in DOMAIN reqs |-> "handler"]
    /\ next = [r \in DOMAIN reqs |-> 0]
    /\ response = [r \in DOMAIN reqs |-> ZeroResponse]
    /\ wg = [r \in DOMAIN reqs |-> 0]
    /\ mu = [r \in DOMAIN reqs |-> FALSE]
    /\ semaphore = [r \in DOMAIN reqs |-> 0]
    /\ workers = [r \in DOMAIN reqs |-> EmptyBag]
    /\ provider = [r \in DOMAIN reqs |-> [ok |-> EmptyBag, failed |-> EmptyBag]]
    /\ result = [r \in DOMAIN reqs |-> <<>>]

\* One request: single, or bulk of any recipient list up to MaxLen.
Init ==
    \E req \in BulkShapes(SeqsUpTo(MaxLen)) \cup SingleShapes : InitWith(<<req>>)

\* One request: single, or bulk larger than the semaphore's capacity.
InitBig ==
    \E req \in BulkShapes({Repeat("a", BigLen)}) \cup SingleShapes :
        InitWith(<<req>>)

\* Two requests served at the same time.
InitPair ==
    \E req1, req2 \in BulkShapes(SeqsUpTo(PairTotal)) \cup SingleShapes :
        /\ Len(req1.to) + Len(req2.to) <= PairTotal
        /\ InitWith(<<req1, req2>>)

\* A bulk request that fills its semaphore and a single request beside it,
\* both sent the same way (same method, bodies equally well formed).
InitMixed ==
    \E req1 \in BulkShapes({Repeat("a", GateCapacity)}) :
        \E req2 \in SingleShapes :
            /\ req2.method = req1.method
            /\ req2.json = req1.json
            /\ req2.to = <<"a">>
            /\ InitWith(<<req1, req2>>)

----------------------------------------------------------------------------
(* The handlers, up to the call of sendSMS or sendBulkSMS *)

\* Mutant: the body is decoded before the method is looked at.
ScreenDecodeFirst(req) ==
    IF ~req.json THEN 400
    ELSE IF req.method # "POST" THEN 405
    ELSE 0

\* The status the handler rejects the request with, 0 when it accepts it:
\* the method is tested first, the body is decoded next.
Screen(req) ==
    IF req.method # "POST" THEN 405
    ELSE IF ~req.json THEN 400
    ELSE 0

\* http.Error(w, "Método no permitido", http.StatusMethodNotAllowed); return
MethodNotAllowed(r) ==
    /\ pc[r] = "handler"
    /\ Screen(request[r]) = 405
    /\ reply' = [reply EXCEPT ![r] = [status |-> 405, body |-> <<"error">>]]
    /\ pc' = [pc EXCEPT ![r] = "closed"]
    /\ UNCHANGED <<request, recipients, next, response, wg, mu, semaphore,
                   workers, provider, result>>

\* http.Error(w, "Request inválido", http.StatusBadRequest); return
BadRequest(r) ==
    /\ pc[r] = "handler"
    /\ Screen(request[r]) = 400
    /\ reply' = [reply EXCEPT ![r] = [status |-> 400, body |-> <<"error">>]]
    /\ pc' = [pc EXCEPT ![r] = "closed"]
    /\ UNCHANGED <<request, recipients, next, response, wg, mu, semaphore,
                   workers, provider, result>>

\* sendBulkSMSHandler reaches response := sendBulkSMS(req.To, req.Message).
AcceptBulk(r) ==
    /\ pc[r] = "handler"
    /\ r \in BulkRequests
    /\ Screen(request[r]) = 0
    /\ pc' = [pc EXCEPT ![r] = "call"]
    /\ UNCHANGED <<request, reply, recipients, next, response, wg, mu,
                   semaphore, workers, provider, result>>

\* sendSMSHandler reaches err := sendSMS(req.To, req.Message): the call starts.
AcceptSingle(r) ==
    /\ pc[r] = "handler"
    /\ r \in SingleRequests
    /\ Screen(request[r]) = 0
    /\ pc' = [pc EXCEPT ![r] = "send"]
    /\ UNCHANGED <<request, reply, recipients, next, response, wg, mu,
                   semaphore, workers, provider, result>>

\* Mutant: the error returned by sendSMS is ignored.
SingleReplyIgnoringErr(to, err) == [status |-> 200, body |-> <<"success", to>>]

\* The reply of sendSMSHandler after sendSMS returned err.
SingleReply(to, err) ==
    IF err # "nil"
    THEN [status |-> 500, body |-> <<"error", err>>]
    ELSE [status |-> 200, body |-> <<"success", to>>]

\* sendSMS returns to sendSMSHandler, which writes its reply.
SingleSent(r) ==
    /\ pc[r] = "send"
    /\ \E out \in Outcomes :
          /\ provider' = [provider EXCEPT ![r] = Called(@, recipients[r][1], out)]
          /\ reply' = [reply EXCEPT ![r] = SingleReply(recipients[r][1], out)]
    /\ pc' = [pc EXCEPT ![r] = "closed"]
    /\ UNCHANGED <<request, recipients, next, response, wg, mu, semaphore,
                   workers, result>>

\* Mutant: a batch none of whose sends succeeded is answered as an error.
BulkReplyFailing(resp) ==
    IF resp.Sent = <<>> /\ resp.Failed # <<>>
    THEN [status |-> 500, body |-> <<"error">>]
    ELSE [status |-> 200, body |-> <<"result", resp>>]

\* The reply of sendBulkSMSHandler: json.NewEncoder(w).Encode(response).
BulkReply(resp) == [status |-> 200, body |-> <<"result", resp>>]

\* sendBulkSMSHandler writes the value sendBulkSMS returned.
Respond(r) ==
    /\ pc[r] = "done"
    /\ reply' = [reply EXCEPT ![r] = BulkReply(result[r][1])]
    /\ pc' = [pc EXCEPT ![r] = "closed"]
    /\ UNCHANGED <<request, recipients, next, response, wg, mu, semaphore,
                   workers, provider, result>>

----------------------------------------------------------------------------
(* The goroutine running sendBulkSMS *)

\* Mutant: the caller adds itself to the WaitGroup it waits on.
CallCountsItself(r) ==
    /\ pc[r] = "call"
    /\ response' = [response EXCEPT ![r] = NewResponse(recipients[r])]
    /\ wg' = [wg EXCEPT ![r] = 1]
    /\ mu' = [mu EXCEPT ![r] = FALSE]
    /\ semaphore' = [semaphore EXCEPT ![r] = 0]
    /\ next' = [next EXCEPT ![r] = 1]
    /\ pc' = [pc EXCEPT ![r] = "loop"]
    /\ UNCHANGED <<request, reply, recipients, workers, provider, result>>

\* Lines 150-160: the locals of the call.
Call(r) ==
    /\ pc[r] = "call"
    /\ response' = [response EXCEPT ![r] = NewResponse(recipients[r])]
    /\ wg' = [wg EXCEPT ![r] = 0]
    /\ mu' = [mu EXCEPT ![r] = FALSE]
    /\ semaphore' = [semaphore EXCEPT ![r] = 0]
    /\ next' = [next EXCEPT ![r] = 1]
    /\ pc' = [pc EXCEPT ![r] = "loop"]
    /\ UNCHANGED <<request, reply, recipients, workers, provider, result>>

\* Mutant: the slot is taken by the caller, before the goroutine is started.
LaunchAcquiring(r) ==
    /\ pc[r] = "loop"
    /\ next[r] <= Len(recipients[r])
    /\ CanSend(semaphore[r])
    /\ semaphore' = [semaphore EXCEPT ![r] = @ + 1]
    /\ wg' = [wg EXCEPT ![r] = @ + 1]
    /\ workers' = [workers EXCEPT
                     ![r] = @ (+) SetToBag({[NewWorker(recipients[r][next[r]])
                                               EXCEPT !.pc = "send"]})]
    /\ next' = [next EXCEPT ![r] = @ + 1]
    /\ UNCHANGED <<request, reply, recipients, pc, response, mu, provider, result>>

\* One iteration of the range loop: wg.Add(1); go func(to string){...}(recipient)
Launch(r) ==
    /\ pc[r] = "loop"
    /\ next[r] <= Len(recipients[r])
    /\ wg' = [wg EXCEPT ![r] = @ + 1]
    /\ workers' = [workers EXCEPT
                     ![r] = @ (+) SetToBag({NewWorker(recipients[r][next[r]])})]
    /\ next' = [next EXCEPT ![r] = @ + 1]
    /\ UNCHANGED <<request, reply, recipients, pc, response, mu, semaphore, provider, result>>

\* The range loop is exhausted: the caller reaches wg.Wait().
LoopExit(r) ==
    /\ pc[r] = "loop"
    /\ next[r] > Len(recipients[r])
    /\ pc' = [pc EXCEPT ![r] = "wait"]
    /\ UNCHANGED <<request, reply, recipients, next, response, wg, mu, semaphore, workers,
                   provider, result>>

\* wg.Wait() returns; return response.
Return(r) ==
    /\ pc[r] = "wait"
    /\ CanPass(wg[r])
    /\ result' = [result EXCEPT ![r] = <<response[r]>>]
    /\ pc' = [pc EXCEPT ![r] = "done"]
    /\ UNCHANGED <<request, reply, recipients, next, response, wg, mu, semaphore, workers,
                   provider>>

----------------------------------------------------------------------------
(* The goroutines started by sendBulkSMS *)

\* semaphore <- struct{}{}
Acquire(r) ==
    \E w \in At(r, "acquire") :
        /\ CanSend(semaphore[r])
        /\ semaphore' = [semaphore EXCEPT ![r] = @ + 1]
        /\ workers' = [workers EXCEPT
                         ![r] = Step(@, w, [w EXCEPT !.pc = "send"])]
        /\ UNCHANGED <<request, reply, recipients, pc, next, response, wg, mu, provider, result>>

\* Mutant: a goroutine gives up on a provider call that has not returned.
SendSMSTimeout(r) ==
    \E w \in At(r, "send") :
        \/ \E out \in Outcomes :
              /\ provider' = [provider EXCEPT ![r] = Called(@, w.to, out)]
              /\ workers' = [workers EXCEPT
                    ![r] = Step(@, w, [w EXCEPT !.pc = "lock", !.err = out])]
              /\ UNCHANGED <<request, reply, recipients, pc, next, response, wg,
                             mu, semaphore, result>>
        \/ /\ workers' = [workers EXCEPT
                  ![r] = Step(@, w, [w EXCEPT !.pc = "lock", !.err = "error"])]
           /\ UNCHANGED <<request, reply, recipients, pc, next, response, wg,
                          mu, semaphore, provider, result>>

\* Mutant: a failed send is tried again.
SendSMSRetry(r) ==
    \E w \in At(r, "send") : \E out \in Outcomes :
        /\ provider' = [provider EXCEPT ![r] = Called(@, w.to, out)]
        /\ workers' = [workers EXCEPT
                         ![r] = IF out = "nil"
                                THEN Step(@, w, [w EXCEPT !.pc = "lock", !.err = out])
                                ELSE Step(@, w, [w EXCEPT !.err = out])]
        /\ UNCHANGED <<request, reply, recipients, pc, next, response, wg, mu, semaphore, result>>

\* err := sendSMS(to, message): one CreateMessage call, which succeeds or fails.
SendSMS(r) ==
    \E w \in At(r, "send") : \E out \in Outcomes :
        /\ provider' = [provider EXCEPT ![r] = Called(@, w.to, out)]
        /\ workers' = [workers EXCEPT
                         ![r] = Step(@, w, [w EXCEPT !.pc = "lock", !.err = out])]
        /\ UNCHANGED <<request, reply, recipients, pc, next, response, wg, mu, semaphore, result>>

\* mu.Lock()
Lock(r) ==
    \E w \in At(r, "lock") :
        /\ CanLock(mu[r])
        /\ mu' = [mu EXCEPT ![r] = TRUE]
        /\ workers' = [workers EXCEPT
                         ![r] = Step(@, w, [w EXCEPT !.pc = "record"])]
        /\ UNCHANGED <<request, reply, recipients, pc, next, response, wg, semaphore, provider,
                       result>>

\* Mutant: the response is shared by all calls (the first call's is used).
RecordShared(r) ==
    \E w \in At(r, "record") :
        /\ response' = [response EXCEPT ![1] = Recorded(@, w.to, w.err)]
        /\ workers' = [workers EXCEPT
                         ![r] = Step(@, w, [w EXCEPT !.pc = "unlock"])]
        /\ UNCHANGED <<request, reply, recipients, pc, next, wg, mu, semaphore, provider, result>>

\* The if statement appending to response.Failed or response.Sent.
Record(r) ==
    \E w \in At(r, "record") :
        /\ response' = [response EXCEPT ![r] = Recorded(@, w.to, w.err)]
        /\ workers' = [workers EXCEPT
                         ![r] = Step(@, w, [w EXCEPT !.pc = "unlock"])]
        /\ UNCHANGED <<request, reply, recipients, pc, next, wg, mu, semaphore, provider, result>>

\* mu.Unlock()
Unlock(r) ==
    \E w \in At(r, "unlock") :
        /\ mu' = [mu EXCEPT ![r] = FALSE]
        /\ workers' = [workers EXCEPT
                         ![r] = Step(@, w, [w EXCEPT !.pc = "release"])]
        /\ UNCHANGED <<request, reply, recipients, pc, next, response, wg, semaphore, provider,
                       result>>

\* Mutant: the goroutine signals wg.Done() while it still holds its slot
\* (the two defer statements run as one, not the receive first).
ReleaseAfterDone(r) ==
    \E w \in At(r, "release") :
        /\ wg' = [wg EXCEPT ![r] = @ - 1]
        /\ semaphore[r] > 0
        /\ semaphore' = [semaphore EXCEPT ![r] = @ - 1]
        /\ workers' = [workers EXCEPT ![r] = @ (-) SetToBag({w})]
        /\ UNCHANGED <<request, reply, recipients, pc, next, response, mu,
                       provider, result>>

\* Mutant: the slot is given back only after a successful send.
ReleaseOnSuccess(r) ==
    \E w \in At(r, "release") :
        /\ semaphore[r] > 0
        /\ semaphore' = [semaphore EXCEPT
                           ![r] = IF w.err = "nil" THEN @ - 1 ELSE @]
        /\ workers' = [workers EXCEPT
                         ![r] = Step(@, w, [w EXCEPT !.pc = "done"])]
        /\ UNCHANGED <<request, reply, recipients, pc, next, response, wg, mu, provider, result>>

\* The second deferred call, run first: <-semaphore
Release(r) ==
    \E w \in At(r, "release") :
        /\ semaphore[r] > 0
        /\ semaphore' = [semaphore EXCEPT ![r] = @ - 1]
        /\ workers' = [workers EXCEPT
                         ![r] = Step(@, w, [w EXCEPT !.pc = "done"])]
        /\ UNCHANGED <<request, reply, recipients, pc, next, response, wg, mu, provider, result>>

\* The first deferred call, run last: wg.Done(); the goroutine ends.
Done(r) ==
    \E w \in At(r, "done") :
        /\ wg' = [wg EXCEPT ![r] = @ - 1]
        /\ workers' = [workers EXCEPT ![r] = @ (-) SetToBag({w})]
        /\ UNCHANGED <<request, reply, recipients, pc, next, response, mu, semaphore, provider,
                       result>>

----------------------------------------------------------------------------

Next ==
    \E r \in Requests :
        \/ MethodNotAllowed(r)
        \/ BadRequest(r)
        \/ AcceptBulk(r)
        \/ AcceptSingle(r)
        \/ SingleSent(r)
        \/ Respond(r)
        \/ Call(r)
        \/ Launch(r)
        \/ LoopExit(r)
        \/ Return(r)
        \/ Acquire(r)
        \/ SendSMS(r)
        \/ Lock(r)
        \/ Record(r)
        \/ Unlock(r)
        \/ Release(r)
        \/ Done(r)

Spec == Init /\ [][Next]_vars

SpecBig == InitBig /\ [][Next]_vars

SpecPair == InitPair /\ [][Next]_vars

SpecMixed == InitMixed /\ [][Next]_vars

----------------------------------------------------------------------------
(* Vocabulary of the properties *)

\* Positions of a goroutine between `semaphore <- struct{}{}` and `<-semaphore`.
Holding == {"send", "lock", "record", "unlock", "release"}

\* Positions of a goroutine between mu.Lock() and mu.Unlock().
Critical == {"record", "unlock"}

\* Positions of a goroutine that has not yet appended to the response.
Unrecorded == {"acquire", "send", "lock", "record"}

\* The recipients of the goroutines ws of a bag, with their multiplicities.
RECURSIVE Targets(_, _)
Targets(bag, ws) ==
    IF ws = {} THEN EmptyBag
    ELSE LET w == CHOOSE x \in ws : TRUE
         IN [x \in {w.to} |-> CopiesIn(w, bag)] (+) Targets(bag, ws \ {w})

TargetsAt(r, locs) == Targets(workers[r], {w \in Live(r) : w.pc \in locs})

\* The recipients the provider was called for, whatever it answered.
Calls(r) == provider[r].ok (+) provider[r].failed

\* The recipients of the loop iterations already executed.
Launched(r) ==
    IF next[r] = 0 THEN EmptyBag
    ELSE SeqToBag(SubSeq(recipients[r], 1, next[r] - 1))

Returned(r) == result[r] # <<>>

\* sendBulkSMS has been called for the request.
Entered(r) == next[r] > 0

----------------------------------------------------------------------------
(* C1: within one call of sendBulkSMS, the number of goroutines between   *)
(* acquiring and releasing a slot of the semaphore, and with it the       *)
(* number of provider calls in flight, never exceeds 10, also for a batch *)
(* of more than 10 recipients.                                            *)
AtMostCapacityInFlight ==
    \A r \in BulkRequests :
        /\ NumAt(r, Holding) <= GateCapacity
        /\ NumAt(r, {"send"}) <= GateCapacity

\* The gate is full and a goroutine of the same batch is kept waiting.
GateFullWitness ==
    \E r \in Requests :
        /\ Len(recipients[r]) > GateCapacity
        /\ NumAt(r, {"send"}) = GateCapacity
        /\ NumAt(r, {"acquire"}) >= 1

----------------------------------------------------------------------------
(* C2: sendBulkSMS returns only after every goroutine it started has      *)
(* appended its outcome and given back its slot: when the caller has the  *)
(* result no goroutine is left, nothing is held, every launched recipient *)
(* is in Sent or Failed, and the response is never written afterwards.    *)
ReturnsAfterJoin ==
    \A r \in BulkRequests :
        Returned(r) =>
            /\ workers[r] = EmptyBag
            /\ wg[r] = 0
            /\ semaphore[r] = 0
            /\ mu[r] = FALSE
            /\ next[r] = Len(recipients[r]) + 1
            /\ Len(response[r].Sent) + Len(response[r].Failed) = next[r] - 1
            /\ result[r] = <<response[r]>>

\* A call with several goroutines has returned.
JoinWitness ==
    \E r \in Requests :
        /\ Returned(r)
        /\ Len(recipients[r]) >= 2
        /\ Len(result[r][1].Sent) + Len(result[r][1].Failed) >= 2

(* C3: when sendBulkSMS returns, len(Sent) + len(Failed) == Total.        *)
SentPlusFailedIsTotal ==
    \A r \in BulkRequests :
        Returned(r) =>
            Len(result[r][1].Sent) + Len(result[r][1].Failed) = result[r][1].Total

\* A returned result with entries in both collections.
MixedResultWitness ==
    \E r \in Requests :
        /\ Returned(r)
        /\ result[r][1].Sent # <<>>
        /\ result[r][1].Failed # <<>>

(* C4: Total is the length of the recipient list as supplied, and every   *)
(* entry of the list, duplicates included, gets a goroutine of its own    *)
(* that appends its own entry to the response.                            *)
TotalCountsDuplicates ==
    \A r \in BulkRequests :
        /\ Entered(r) => response[r].Total = Len(recipients[r])
        /\ pc[r] \in {"wait", "done", "closed"} /\ Entered(r) =>
              TargetsAt(r, Unrecorded) (+) SeqToBag(response[r].Sent)
                  (+) SeqToBag(response[r].Failed) = SeqToBag(recipients[r])
        /\ Returned(r) =>
              /\ result[r][1].Total = Len(recipients[r])
              /\ SeqToBag(result[r][1].Sent) (+) SeqToBag(result[r][1].Failed)
                     = SeqToBag(recipients[r])

\* A returned result of a request that names one recipient twice.
DuplicateWitness ==
    \E r \in Requests : \E i, j \in DOMAIN recipients[r] :
        /\ i < j
        /\ recipients[r][i] = recipients[r][j]
        /\ Returned(r)
        /\ CopiesIn(recipients[r][i], Calls(r)) >= 2

(* C5: when sendBulkSMS returns, Failed holds exactly the recipients      *)
(* whose provider call failed and Sent exactly those whose call succeeded *)
(* (as multisets), whatever the provider answered and however the         *)
(* goroutines interleaved.                                                *)
OutcomesPartitionRecipients ==
    \A r \in BulkRequests :
        Returned(r) =>
            /\ SeqToBag(result[r][1].Failed) = provider[r].failed
            /\ SeqToBag(result[r][1].Sent) = provider[r].ok
            /\ provider[r].ok (+) provider[r].failed = SeqToBag(recipients[r])

\* The provider failed for one recipient only, and the others were sent.
OnlyOneFailedWitness ==
    \E r \in Requests : \E x \in Recipients :
        /\ Returned(r)
        /\ provider[r].failed = SetToBag({x})
        /\ result[r][1].Failed = <<x>>
        /\ Len(result[r][1].Sent) >= 2
        /\ \A i \in DOMAIN result[r][1].Sent : result[r][1].Sent[i] # x

(* C6: a failed send neither aborts the batch nor is retried: the         *)
(* provider is never called more often for a recipient than the request   *)
(* names it, only for recipients already launched, and by the time        *)
(* sendBulkSMS returns it has been called exactly once per entry.         *)
OneCallPerEntry ==
    \A r \in BulkRequests :
        /\ Calls(r) \sqsubseteq Launched(r)
        /\ Launched(r) \sqsubseteq SeqToBag(recipients[r])
        /\ Returned(r) => Calls(r) = SeqToBag(recipients[r])

\* Every send of a batch of several recipients failed.
AllFailedWitness ==
    \E r \in Requests :
        /\ Returned(r)
        /\ Len(recipients[r]) >= 2
        /\ provider[r].ok = EmptyBag
        /\ BagCardinality(provider[r].failed) = Len(recipients[r])

(* C7: acquisition and release of a slot are paired whatever the send     *)
(* returned: the slots taken are exactly those of the goroutines between  *)
(* acquire and release, so a slot freed after a failed send is free for a *)
(* waiting goroutine, and no slot is taken when the dispatch completes.   *)
SlotsPaired ==
    \A r \in BulkRequests :
        /\ semaphore[r] = NumAt(r, Holding)
        /\ Returned(r) => semaphore[r] = 0

\* The first ten sends of a larger batch failed and gave back their slots,
\* and the eleventh goroutine has been admitted.
FailedSlotsReusedWitness ==
    \E r \in Requests :
        /\ Len(recipients[r]) > GateCapacity
        /\ provider[r].ok = EmptyBag
        /\ BagCardinality(provider[r].failed) = GateCapacity
        /\ NumAt(r, Holding \ {"send"}) = 0
        /\ NumAt(r, {"send"}) >= 1

(* C8: at most one goroutine of a batch is between mu.Lock() and          *)
(* mu.Unlock(), the mutex is locked exactly while one is, and a goroutine *)
(* holding it has its provider call behind it.                            *)
MutualExclusion ==
    \A r \in BulkRequests :
        /\ NumAt(r, Critical) <= 1
        /\ mu[r] <=> (NumAt(r, Critical) = 1)
        /\ \A w \in Live(r) :
              /\ w.pc \in Critical => w.err \in Outcomes
              /\ w.pc \in {"acquire", "send"} => w.err = "unset"

\* One goroutine appends while a second waits for the mutex and a third
\* is still calling the provider.
ContentionWitness ==
    \E r \in Requests :
        /\ NumAt(r, {"record"}) = 1
        /\ NumAt(r, {"lock"}) >= 1
        /\ NumAt(r, {"send"}) >= 1

(* C9: two calls of sendBulkSMS running at the same time keep their       *)
(* results apart: each response is written only by its own goroutines     *)
(* and gets its own Total, and each returned result partitions its own    *)
(* recipients with len(Sent) + len(Failed) == Total.                      *)
NoCrossContamination ==
    \A r \in BulkRequests :
        /\ ~Entered(r) => response[r] = ZeroResponse
        /\ Entered(r) =>
              /\ response[r].Total = Len(recipients[r])
              /\ TargetsAt(r, Unrecorded) (+) SeqToBag(response[r].Sent)
                     (+) SeqToBag(response[r].Failed) = Launched(r)
        /\ Returned(r) =>
              /\ SeqToBag(result[r][1].Sent) = provider[r].ok
              /\ SeqToBag(result[r][1].Failed) = provider[r].failed
              /\ Len(result[r][1].Sent) + Len(result[r][1].Failed)
                     = Len(recipients[r])
              /\ result[r][1].Total = Len(recipients[r])

\* Goroutines of two calls have each just appended, at the same time.
TwoBatchesWitness ==
    /\ Cardinality(BulkRequests) = 2
    /\ recipients[1] # recipients[2]
    /\ \A r \in BulkRequests : NumAt(r, {"unlock"}) = 1

(* C10: for an empty recipient list sendBulkSMS starts no goroutine,      *)
(* takes no slot, calls the provider never, finds wg.Wait() open and      *)
(* returns Sent = [], Failed = [], Total = 0.                             *)
EmptyBatch ==
    \A r \in BulkRequests :
        recipients[r] = <<>> =>
            /\ workers[r] = EmptyBag
            /\ semaphore[r] = 0
            /\ Calls(r) = EmptyBag
            /\ pc[r] = "wait" => CanPass(wg[r])
            /\ Returned(r) =>
                  result[r] = <<[Sent |-> <<>>, Failed |-> <<>>, Total |-> 0]>>

\* The call for an empty list has returned.
EmptyBatchWitness ==
    \E r \in Requests :
        /\ recipients[r] = <<>>
        /\ Returned(r)

----------------------------------------------------------------------------
\* Provider calls of request r that have started and not yet returned.
InFlight(r) ==
    IF r \in SingleRequests
    THEN IF pc[r] = "send" THEN 1 ELSE 0
    ELSE NumAt(r, {"send"})

RECURSIVE SumInFlight(_)
SumInFlight(rs) ==
    IF rs = {} THEN 0
    ELSE LET r == CHOOSE x \in rs : TRUE
         IN InFlight(r) + SumInFlight(rs \ {r})

(* C11: at every moment the provider calls in flight, counted over all    *)
(* the requests the process is serving (bulk and single), are at most 10. *)
GateBoundsAllRequests == SumInFlight(Requests) <= GateCapacity

\* The handler of request r has never got past its screening.
Untouched(r) ==
    /\ pc[r] \in {"handler", "closed"}
    /\ next[r] = 0
    /\ workers[r] = EmptyBag
    /\ wg[r] = 0
    /\ semaphore[r] = 0
    /\ Calls(r) = EmptyBag
    /\ result[r] = <<>>

(* C12: on both endpoints a request whose method is not POST is answered  *)
(* 405, also when its body is malformed, and a POST whose body does not   *)
(* decode is answered 400; neither starts a goroutine or calls the        *)
(* provider.                                                              *)
RejectedWithoutDispatch ==
    \A r \in Requests :
        /\ request[r].method # "POST" =>
              /\ Untouched(r)
              /\ reply[r].status \in {0, 405}
              /\ pc[r] = "closed" => reply[r].status = 405
        /\ request[r].method = "POST" /\ ~request[r].json =>
              /\ Untouched(r)
              /\ reply[r].status \in {0, 400}
              /\ pc[r] = "closed" => reply[r].status = 400

\* A request with the wrong method and a malformed body has been answered 405.
WrongMethodBadBodyWitness ==
    \E r \in Requests :
        /\ request[r].method # "POST"
        /\ ~request[r].json
        /\ pc[r] = "closed"
        /\ reply[r].status = 405

(* C13: a POST to /send-bulk-sms with a decodable body is answered only   *)
(* with status 200 and the completed result of sendBulkSMS, also when     *)
(* every send failed.                                                     *)
BulkAnswered200 ==
    \A r \in BulkRequests :
        request[r].method = "POST" /\ request[r].json =>
            /\ reply[r].status \in {0, 200}
            /\ pc[r] = "closed" =>
                  /\ Returned(r)
                  /\ workers[r] = EmptyBag
                  /\ reply[r] = [status |-> 200, body |-> <<"result", response[r]>>]
                  /\ Len(response[r].Sent) + Len(response[r].Failed)
                         = Len(recipients[r])

\* A batch all of whose sends failed has been answered 200.
AllFailed200Witness ==
    \E r \in BulkRequests :
        /\ pc[r] = "closed"
        /\ reply[r].status = 200
        /\ Len(recipients[r]) >= 2
        /\ response[r].Sent = <<>>
        /\ Len(response[r].Failed) = Len(recipients[r])

(* C14: a POST to /send-sms with a decodable body calls the provider      *)
(* exactly once, takes no slot of any semaphore and does not retry; it is *)
(* answered 500 with the error text exactly when that call failed, and    *)
(* 200 with "success" and the recipient otherwise.                        *)
SingleSendOnce ==
    \A r \in SingleRequests :
        request[r].method = "POST" /\ request[r].json =>
            /\ semaphore[r] = 0 /\ workers[r] = EmptyBag /\ next[r] = 0
            /\ pc[r] \in {"handler", "send"} =>
                  Calls(r) = EmptyBag /\ reply[r] = NoReply
            /\ pc[r] = "closed" =>
                  /\ Calls(r) = SetToBag({recipients[r][1]})
                  /\ reply[r].status = 500 <=> provider[r].failed # EmptyBag
                  /\ reply[r].status = 500 => reply[r].body = <<"error", "error">>
                  /\ reply[r].status # 500 =>
                        reply[r] = [status |-> 200,
                                    body |-> <<"success", recipients[r][1]>>]

\* A single send has failed and been answered 500.
SingleFailedWitness ==
    \E r \in SingleRequests :
        /\ pc[r] = "closed"
        /\ provider[r].failed = SetToBag({recipients[r][1]})
        /\ reply[r].status = 500

----------------------------------------------------------------------------
(* Scheduling: while some goroutine can take a step, a step is taken.    *)
(* This is the least that fair scheduling of the goroutines, blocked      *)
(* channel sends and Locks proceeding once they can, and provider calls   *)
(* that return, guarantee together: were no step taken from some point    *)
(* on, the state would stay as it is and one goroutine could take its     *)
(* step forever without being scheduled.                                  *)
Fairness == WF_vars(Next)

FairSpecBig == SpecBig /\ Fairness

\* Every request is answered; every accepted bulk request has returned from
\* sendBulkSMS with all its goroutines finished and all outcomes recorded.
Completed ==
    \A r \in Requests :
        /\ pc[r] = "closed"
        /\ r \in BulkRequests /\ Screen(request[r]) = 0 =>
              /\ Returned(r)
              /\ workers[r] = EmptyBag
              /\ Len(response[r].Sent) + Len(response[r].Failed)
                     = Len(recipients[r])

(* C15: when every provider call returns and the goroutines are scheduled *)
(* fairly, every goroutine of a batch is admitted, records and finishes   *)
(* and sendBulkSMS returns, for batches larger than the semaphore and for *)
(* every pattern of failed sends.                                         *)
DispatchTerminates == <>Completed

\* A batch larger than the semaphore, with failed sends in it, has completed.
BigBatchCompletedWitness ==
    \E r \in BulkRequests :
        /\ Completed
        /\ Len(recipients[r]) > GateCapacity
        /\ Len(response[r].Failed) >= GateCapacity
        /\ response[r].Sent # <<>>

----------------------------------------------------------------------------
\* Provider calls of request r that have returned.
Answered(r) == BagCardinality(Calls(r))

(* C16: there is no timeout and no cancellation.  A goroutine leaves its  *)
(* provider call only when the provider answers; until then it keeps its  *)
(* slot and sendBulkSMS cannot return.  While fewer than 10 calls are     *)
(* outstanding a waiting goroutine is admitted as soon as a slot is free, *)
(* and a slot is free or about to be freed without any of those calls     *)
(* returning; with 10 calls outstanding no goroutine is admitted.         *)
NoTimeout ==
    [][\A r \in BulkRequests :
          /\ (NumAt(r, {"send"}))' < NumAt(r, {"send"}) =>
                (Answered(r))' = Answered(r) + 1
          /\ NumAt(r, {"send"}) >= 1 =>
                /\ semaphore[r] >= NumAt(r, {"send"})
                /\ wg[r] >= NumAt(r, {"send"})
                /\ ~Returned(r) /\ ~(Returned(r))'
                /\ ~ENABLED Return(r)
          /\ NumAt(r, {"acquire"}) >= 1 /\ NumAt(r, {"send"}) < GateCapacity =>
                \/ ENABLED Acquire(r)
                \/ NumAt(r, Holding \ {"send"}) >= 1
          /\ NumAt(r, {"send"}) = GateCapacity => ~ENABLED Acquire(r)
      ]_vars

\* One call is outstanding; the ten other goroutines of the batch have
\* recorded and finished, and sendBulkSMS is still waiting.
OneStalledWitness ==
    \E r \in BulkRequests :
        /\ pc[r] = "wait"
        /\ ~Returned(r)
        /\ BagCardinality(workers[r]) = 1
        /\ NumAt(r, {"send"}) = 1
        /\ Len(response[r].Sent) + Len(response[r].Failed) = GateCapacity

----------------------------------------------------------------------------
(* C17: waiting for a slot blocks the goroutine, never the loop that      *)
(* starts the goroutines: whatever the semaphore holds, the caller can    *)
(* take its next step through the loop, so that all N goroutines are      *)
(* started and wg.Wait() is reached before any provider call returns.     *)
LaunchNeverBlocks ==
    \A r \in BulkRequests :
        /\ pc[r] = "loop" /\ next[r] <= Len(recipients[r]) => ENABLED Launch(r)
        /\ pc[r] = "loop" /\ next[r] > Len(recipients[r]) => ENABLED LoopExit(r)
        /\ pc[r] \in {"wait", "done"} =>
              /\ next[r] = Len(recipients[r]) + 1
              /\ BagCardinality(workers[r]) + Len(response[r].Sent)
                     + Len(response[r].Failed) >= Len(recipients[r])

\* All goroutines of a batch larger than the semaphore are started and the
\* caller is in wg.Wait(): 10 are calling the provider, the others wait for
\* a slot, and no call has returned yet.
AllLaunchedWitness ==
    \E r \in BulkRequests :
        /\ pc[r] = "wait"
        /\ Len(recipients[r]) > GateCapacity
        /\ Calls(r) = EmptyBag
        /\ BagCardinality(workers[r]) = Len(recipients[r])
        /\ NumAt(r, {"send"}) = GateCapacity
        /\ NumAt(r, {"acquire"}) = Len(recipients[r]) - GateCapacity

----------------------------------------------------------------------------
\* Goroutines of request r that have appended their outcome.
NumRecorded(r) == (next[r] - 1) - NumAt(r, Unrecorded)

(* C18: the response is created with Sent and Failed empty and Total = N  *)
(* and is changed afterwards only by a goroutine's recording step, which  *)
(* appends that goroutine's recipient to exactly one of Sent and Failed   *)
(* and leaves the other and Total as they are; len(Sent) + len(Failed)    *)
(* is the number of goroutines that have recorded, at most Total.         *)
ResponseFrame ==
    [][\A r \in BulkRequests :
          /\ Entered(r) =>
                /\ response[r].Total = Len(recipients[r])
                /\ Len(response[r].Sent) + Len(response[r].Failed)
                       = NumRecorded(r)
                /\ NumRecorded(r) <= response[r].Total
          /\ response'[r] # response[r] =>
                \/ /\ ~Entered(r)
                   /\ response'[r] = [Sent |-> <<>>, Failed |-> <<>>,
                                      Total |-> Len(recipients[r])]
                \/ \E w \in At(r, "record") :
                      /\ workers'[r] = Step(workers[r], w, [w EXCEPT !.pc = "unlock"])
                      /\ \/ /\ w.err = "nil"
                            /\ response'[r] =
                                  [response[r] EXCEPT !.Sent = Append(@, w.to)]
                         \/ /\ w.err = "error"
                            /\ response'[r] =
                                  [response[r] EXCEPT !.Failed = Append(@, w.to)]
      ]_vars

\* Both collections have grown and a goroutine has still to record.
GrowingResponseWitness ==
    \E r \in BulkRequests :
        /\ response[r].Sent # <<>>
        /\ response[r].Failed # <<>>
        /\ NumAt(r, Unrecorded) >= 1
        /\ NumRecorded(r) = 2

----------------------------------------------------------------------------
(* C19: the resources of a goroutine are nested in one fixed order.  The  *)
(* mutex is taken only by a goroutine that holds a slot and whose         *)
(* provider call has returned; the slot is given back by a goroutine that *)
(* has unlocked the mutex, in a step of its own before wg.Done(); a       *)
(* goroutine that signals wg.Done() holds neither; and a goroutine that   *)
(* takes a slot does not hold the mutex.                                  *)
ResourceNesting ==
    [][\A r \in BulkRequests :
          /\ mu[r] => semaphore[r] >= 1
          /\ semaphore[r] <= wg[r]
          /\ \A w \in Live(r) : w.pc \in {"lock"} \cup Critical =>
                                    w.err \in Outcomes
          /\ mu'[r] /\ ~mu[r] =>
                /\ semaphore[r] >= 1 /\ semaphore'[r] = semaphore[r]
                /\ \E w \in At(r, "lock") :
                      /\ w.err \in Outcomes
                      /\ workers'[r] = Step(workers[r], w, [w EXCEPT !.pc = "record"])
          /\ semaphore'[r] > semaphore[r] =>
                /\ mu'[r] = mu[r]
                /\ (NumAt(r, Critical))' = NumAt(r, Critical)
                /\ (NumAt(r, {"acquire"}))' = NumAt(r, {"acquire"}) - 1
          /\ semaphore'[r] < semaphore[r] =>
                /\ mu'[r] = mu[r]
                /\ wg'[r] = wg[r]
                /\ (NumAt(r, Critical))' = NumAt(r, Critical)
                /\ (NumAt(r, {"release"}))' = NumAt(r, {"release"}) - 1
          /\ wg'[r] < wg[r] =>
                /\ semaphore'[r] = semaphore[r]
                /\ mu'[r] = mu[r]
                /\ (NumAt(r, {"done"}))' = NumAt(r, {"done"}) - 1
      ]_vars

\* One goroutine holds the mutex and a slot, a second holds a slot and waits
\* for the mutex, a third has given its slot back and not yet signalled.
NestedHoldersWitness ==
    \E r \in BulkRequests :
        /\ mu[r]
        /\ NumAt(r, Critical) = 1
        /\ NumAt(r, {"lock"}) = 1
        /\ NumAt(r, {"done"}) = 1
        /\ semaphore[r] = 2
        /\ wg[r] = 3

====
